---- MODULE Spec2Model ----
(***************************************************************************)
(* SharpFrameExtractor.extract (sharp_frame_extractor/SharpFrameExtractor.py)*)
(*                                                                         *)
(* The coordinator probes a video, plans the time windows, sizes a worker  *)
(* pool, hands the windows to the pool with imap_unordered and collects    *)
(* the results.  Times are Python floats (IEEE-754 binary64); they are     *)
(* modelled bit-exactly: a float is a 53-bit significand and an exponent,  *)
(* every operation rounds to nearest, ties to even, as the hardware does.  *)
(***************************************************************************)
EXTENDS Integers, Sequences, FiniteSets, TLC

(***************************************************************************)
(* An operator application substitutes the argument expressions and        *)
(* evaluates them at every use.  Where an argument is itself a computed    *)
(* number, the application is written                                      *)
(*     CHOOSE r \in {F(v) : v \in {x}} : TRUE                               *)
(* which evaluates x once and applies F to its value; it equals F(x).      *)
(***************************************************************************)

(***************************************************************************)
(* Multi-limb naturals.  A Big is a little-endian tuple of NumLimbs limbs  *)
(* of LimbBits bits, wide enough for every intermediate (a 53-bit          *)
(* significand shifted left by up to 57 bits).                             *)
(***************************************************************************)
LimbBits == 30

NumLimbs == 4

\* 2^k for k in 0..30
TwoPow ==
    <<
      1, 2, 4, 8, 16, 32, 64, 128, 256, 512, 1024, 2048, 4096, 8192,
      16384, 32768, 65536, 131072, 262144, 524288, 1048576, 2097152,
      4194304, 8388608, 16777216, 33554432, 67108864, 134217728,
      268435456, 536870912, 1073741824
    >>

Pow2(k) == TwoPow[k + 1]

LimbBase == Pow2(LimbBits)

BigZero == [i \in 1..NumLimbs |-> 0]

BigOf(n) == [i \in 1..NumLimbs |-> IF i = 1 THEN n ELSE 0]

RECURSIVE BigAddFrom(_, _, _, _)
BigAddFrom(a, b, i, c) ==
    IF i > NumLimbs THEN <<>>
    ELSE <<(a[i] + b[i] + c) % LimbBase>>
         \o BigAddFrom(a, b, i + 1, (a[i] + b[i] + c) \div LimbBase)

BigAddV(a, b) == BigAddFrom(a, b, 1, 0)

BigAdd(a, b) ==
    CHOOSE r1 \in {BigAddV(v1a, v1b) : v1a \in {a}, v1b \in {b}} : TRUE

RECURSIVE BigSubFrom(_, _, _, _)
BigSubFrom(a, b, i, w) ==
    IF i > NumLimbs THEN <<>>
    ELSE IF a[i] - b[i] - w < 0
         THEN <<a[i] - b[i] - w + LimbBase>> \o BigSubFrom(a, b, i + 1, 1)
         ELSE <<a[i] - b[i] - w>> \o BigSubFrom(a, b, i + 1, 0)

BigSubV(a, b) == BigSubFrom(a, b, 1, 0)

\* a - b for a >= b
BigSub(a, b) ==
    CHOOSE r2 \in {BigSubV(v2a, v2b) : v2a \in {a}, v2b \in {b}} : TRUE

RECURSIVE BigGeqFrom(_, _, _)
BigGeqFrom(a, b, i) ==
    IF i = 0 THEN TRUE
    ELSE IF a[i] # b[i] THEN a[i] > b[i]
    ELSE BigGeqFrom(a, b, i - 1)

BigGeqV(a, b) == BigGeqFrom(a, b, NumLimbs)

BigGeq(a, b) ==
    CHOOSE r3 \in {BigGeqV(v3a, v3b) : v3a \in {a}, v3b \in {b}} : TRUE

BigOdd(a) == a[1] % 2 = 1

BigDbl(a) == BigAdd(a, a)

\* a * 2^k for 0 <= k < LimbBits, limb by limb so that no product overflows
BigShlBits(a, k) ==
    [i \in 1..NumLimbs |->
        (a[i] % Pow2(LimbBits - k)) * Pow2(k)
        + (IF i > 1 THEN a[i - 1] \div Pow2(LimbBits - k) ELSE 0)]

BigShlLimbs(a, j) == [i \in 1..NumLimbs |-> IF i > j THEN a[i - j] ELSE 0]

BigShlV(a, n) ==
    CHOOSE r4 \in {BigShlBits(v4a, v4b) :
        v4a \in {BigShlLimbs(a, n \div LimbBits)},
        v4b \in {n % LimbBits}} : TRUE

\* a * 2^n
BigShl(a, n) ==
    CHOOSE r5 \in {BigShlV(v5a, v5b) : v5a \in {a}, v5b \in {n}} : TRUE

BigShrBits(a, k) ==
    [i \in 1..NumLimbs |->
        (a[i] \div Pow2(k))
        + (IF i < NumLimbs THEN (a[i + 1] % Pow2(k)) * Pow2(LimbBits - k) ELSE 0)]

BigShrLimbs(a, j) ==
    [i \in 1..NumLimbs |-> IF i + j <= NumLimbs THEN a[i + j] ELSE 0]

BigShrV(a, n) ==
    CHOOSE r6 \in {BigShrBits(v6a, v6b) :
        v6a \in {BigShrLimbs(a, n \div LimbBits)},
        v6b \in {n % LimbBits}} : TRUE

\* floor(a / 2^n)
BigShr(a, n) ==
    CHOOSE r7 \in {BigShrV(v7a, v7b) : v7a \in {a}, v7b \in {n}} : TRUE

BigBitLenV(a) ==
    IF a = BigZero THEN 0
    ELSE LET top == CHOOSE i \in 1..NumLimbs :
                        a[i] # 0 /\ \A j \in (i + 1)..NumLimbs : a[j] = 0
         IN  LimbBits * (top - 1)
             + Cardinality({k \in 0..(LimbBits - 1) : Pow2(k) <= a[top]})

\* number of significant bits of a
BigBitLen(a) == CHOOSE r8 \in {BigBitLenV(v8a) : v8a \in {a}} : TRUE

RECURSIVE BigMulSmallV(_, _)
BigMulSmallV(a, k) ==
    IF k = 0 THEN BigZero
    ELSE IF k % 2 = 1 THEN BigAdd(BigDbl(BigMulSmallV(a, k \div 2)), a)
    ELSE BigDbl(BigMulSmallV(a, k \div 2))

\* a * k for a small natural k
BigMulSmall(a, k) ==
    CHOOSE r9 \in {BigMulSmallV(v9a, v9b) : v9a \in {a}, v9b \in {k}} : TRUE

\* a Big known to be below LimbBase, as an integer
BigToInt(a) == a[1]

(***************************************************************************)
(* Rounding.  ShrRound(a, n, st) drops the n low bits of a and returns the *)
(* kept bits q, the last dropped bit g and whether anything below it was   *)
(* set (st: bits already lost by the caller).                              *)
(***************************************************************************)
ShrParts(q, rem, half) ==
    [q |-> q, g |-> BigGeq(rem, half),
     st |-> IF BigGeq(rem, half) THEN rem # half ELSE rem # BigZero]

ShrSplit(a, n, q) ==
    CHOOSE r10 \in {ShrParts(v10a, v10b, v10c) :
        v10a \in {q},
        v10b \in {BigSub(a, BigShl(q, n))},
        v10c \in {BigShl(BigOf(1), n - 1)}} : TRUE

ShrRoundV(a, n, st) ==
    IF n = 0 THEN [q |-> a, g |-> FALSE, st |-> st]
    ELSE [(CHOOSE r11 \in {ShrSplit(v11a, v11b, v11c) :
               v11a \in {a},
               v11b \in {n},
               v11c \in {BigShr(a, n)}} : TRUE) EXCEPT !.st = @ \/ st]

ShrRound(a, n, st) ==
    CHOOSE r12 \in {ShrRoundV(v12a, v12b, v12c) :
        v12a \in {a},
        v12b \in {n},
        v12c \in {st}} : TRUE

NearestEvenV(r) ==
    IF r.g /\ (r.st \/ BigOdd(r.q)) THEN BigAdd(r.q, BigOf(1)) ELSE r.q

\* round to nearest, ties to even
NearestEven(r) == CHOOSE r13 \in {NearestEvenV(v13a) : v13a \in {r}} : TRUE

(***************************************************************************)
(* Floats: [m, e] stands for m * 2^e, with m = 0 (and e = 0) or m of       *)
(* exactly MantBits bits.  Only non-negative values occur in extract.      *)
(***************************************************************************)
MantBits == 53

FZero == [m |-> BigZero, e |-> 0]

FIsZero(x) == x.m = BigZero

\* m has MantBits or MantBits + 1 bits (a carry out of the rounding)
FCarry(m, e) ==
    IF BigBitLen(m) > MantBits THEN [m |-> BigShr(m, 1), e |-> e + 1]
                               ELSE [m |-> m, e |-> e]

FRoundLen(a, e, st, nbits) ==
    IF nbits = 0 THEN FZero
    ELSE IF nbits <= MantBits
         THEN [m |-> BigShl(a, MantBits - nbits), e |-> e - (MantBits - nbits)]
    ELSE CHOOSE r14 \in {FCarry(v14a, v14b) :
             v14a \in {NearestEven(ShrRound(a, nbits - MantBits, st))},
             v14b \in {e + (nbits - MantBits)}} : TRUE

FRoundV(a, e, st) == FRoundLen(a, e, st, BigBitLen(a))

\* the float nearest to a * 2^e (st: a nonzero amount below a was dropped)
FRound(a, e, st) ==
    CHOOSE r15 \in {FRoundV(v15a, v15b, v15c) :
        v15a \in {a},
        v15b \in {e},
        v15c \in {st}} : TRUE

\* float(n) for a small natural n
FInt(n) == FRound(BigOf(n), 0, FALSE)

FMulSmallV(x, k, ek) == FRound(BigMulSmall(x.m, k), x.e + ek, FALSE)

\* x * (k * 2^ek): float times a float whose significand is the small k
FMulSmall(x, k, ek) ==
    CHOOSE r16 \in {FMulSmallV(v16a, v16b, v16c) :
        v16a \in {x},
        v16b \in {k},
        v16c \in {ek}} : TRUE

\* one step of the long division of significands: the next quotient bit of
\* r / d, s = <<remainder, quotient so far>>
DivStep(s, d) ==
    IF BigGeq(s[1], d)
    THEN <<BigDbl(BigSub(s[1], d)), BigAdd(BigDbl(s[2]), BigOf(1))>>
    ELSE <<BigDbl(s[1]), BigDbl(s[2])>>

\* steps steps, halving the count so that the evaluation stays shallow
RECURSIVE DivBits(_, _, _)
DivBits(s, d, steps) ==
    IF steps = 0 THEN s
    ELSE IF steps = 1 THEN CHOOSE r17 \in {DivStep(v17a, v17b) :
                               v17a \in {s},
                               v17b \in {d}} : TRUE
    ELSE CHOOSE r18 \in {DivBits(v18a, v18b, v18c) :
             v18a \in {CHOOSE r19 \in {DivBits(v19a, v19b, v19c) :
                           v19a \in {s},
                           v19b \in {d},
                           v19c \in {steps \div 2}} : TRUE},
             v18b \in {d},
             v18c \in {steps - (steps \div 2)}} : TRUE

DivSteps == 57

FDivQ(dv, e) == FRound(dv[2], e, dv[1] # BigZero)

FDivV(x, y) ==
    IF FIsZero(x) THEN FZero
    ELSE CHOOSE r20 \in {FDivQ(v20a, v20b) :
             v20a \in {DivBits(<<x.m, BigZero>>, y.m, DivSteps)},
             v20b \in {x.e - y.e - (DivSteps - 1)}} : TRUE

\* x / y for y # 0
FDiv(x, y) ==
    CHOOSE r21 \in {FDivV(v21a, v21b) : v21a \in {x}, v21b \in {y}} : TRUE

FAddAligned(hi, lo) ==
    IF hi.e - lo.e > MantBits + 2 THEN hi
    ELSE FRound(BigAdd(BigShl(hi.m, hi.e - lo.e), lo.m), lo.e, FALSE)

FAddV(x, y) ==
    IF FIsZero(x) THEN y
    ELSE IF FIsZero(y) THEN x
    ELSE IF x.e >= y.e THEN FAddAligned(x, y)
    ELSE FAddAligned(y, x)

\* x + y, both non-negative
FAdd(x, y) ==
    CHOOSE r22 \in {FAddV(v22a, v22b) : v22a \in {x}, v22b \in {y}} : TRUE

FFloorV(x) ==
    IF FIsZero(x) \/ x.e <= -MantBits THEN 0
    ELSE IF x.e >= 0 THEN BigToInt(BigShl(x.m, x.e))
    ELSE BigToInt(BigShr(x.m, -x.e))

\* math.floor(x) for 0 <= x < 2^30
FFloor(x) == CHOOSE r23 \in {FFloorV(v23a) : v23a \in {x}} : TRUE

CeilOf(r) == BigToInt(r.q) + (IF r.g \/ r.st THEN 1 ELSE 0)

FCeilV(x) ==
    IF FIsZero(x) THEN 0
    ELSE IF x.e >= 0 THEN BigToInt(BigShl(x.m, x.e))
    ELSE IF x.e <= -MantBits THEN 1
    ELSE CHOOSE r24 \in {CeilOf(v24a) :
             v24a \in {ShrRound(x.m, -x.e, FALSE)}} : TRUE

\* math.ceil(x) for 0 <= x < 2^30
FCeil(x) == CHOOSE r25 \in {FCeilV(v25a) : v25a \in {x}} : TRUE

PyRoundV(x) ==
    IF FIsZero(x) \/ x.e < -MantBits THEN 0
    ELSE IF x.e >= 0 THEN BigToInt(BigShl(x.m, x.e))
    ELSE BigToInt(NearestEven(ShrRound(x.m, -x.e, FALSE)))

\* round(x) of Python 3 (one argument): nearest integer, ties to even
PyRound(x) == CHOOSE r26 \in {PyRoundV(v26a) : v26a \in {x}} : TRUE

\* x <= y for non-negative floats
FLeqV(x, y) ==
    IF FIsZero(x) THEN TRUE
    ELSE IF FIsZero(y) THEN FALSE
    ELSE IF x.e # y.e THEN x.e < y.e
    ELSE BigGeq(y.m, x.m)

FLeq(x, y) ==
    CHOOSE r27 \in {FLeqV(v27a, v27b) : v27a \in {x}, v27b \in {y}} : TRUE

FLess(x, y) == FLeq(x, y) /\ x # y

Max(a, b) == IF a >= b THEN a ELSE b

Min(a, b) == IF a <= b THEN a ELSE b

(***************************************************************************)
(* extract, lines 35-91: everything up to the creation of the pool, as a   *)
(* function of the inputs.  Each operator is one statement of the source.  *)
(***************************************************************************)

\* line 47: video_length_ms = frame_count / float(fps) * 1000
VideoLengthMs(frame_count, fps) == FMulSmall(FDiv(FInt(frame_count), fps), 1000, 0)

\* lines 50-51: target_frame_count overrides the window size
TargetWindowSize(video_length_ms, window_size_ms, target_frame_count) ==
    IF target_frame_count > 0
    THEN FDiv(video_length_ms, FInt(target_frame_count))
    ELSE window_size_ms

\* lines 55-56: extract_all overrides it again (frame_count # 0)
AllWindowSize(video_length_ms, window_size_ms, frame_count, extract_all) ==
    IF extract_all
    THEN FDiv(video_length_ms, FInt(frame_count))
    ELSE window_size_ms

\* a planner that rounds the number of steps up
StepCountCeil(video_length_ms, window_size_ms) ==
    FCeil(FDiv(video_length_ms, window_size_ms))

\* line 59: step_count = math.floor(video_length_ms / window_size_ms)
StepCount(video_length_ms, window_size_ms) ==
    FFloor(FDiv(video_length_ms, window_size_ms))

\* a planner that does not clamp the last window
WindowNoClamp(i, window_size_ms, video_length_ms, step_count) ==
    [index    |-> i,
     start_ms |-> FMulSmall(window_size_ms, i, 0),
     end_ms   |-> FAdd(FMulSmall(window_size_ms, i, 0), window_size_ms)]

\* lines 71-78: the window of index i
Window(i, window_size_ms, video_length_ms, step_count) ==
    LET window_start_ms == FMulSmall(window_size_ms, i, 0)
        window_end_ms   == FAdd(window_start_ms, window_size_ms)
    IN  [index    |-> i,
         start_ms |-> window_start_ms,
         end_ms   |-> IF i = step_count - 1 THEN video_length_ms
                                            ELSE window_end_ms]

\* lines 69-78: windows, in list order
CreateWindows(window_size_ms, video_length_ms, step_count) ==
    [k \in 1..step_count |->
        Window(k - 1, window_size_ms, video_length_ms, step_count)]

\* line 82: buffer_size = math.ceil(frame_count / len(windows) * 1.5)
BufferSize(frame_count, nwindows) ==
    FCeil(FMulSmall(FDiv(FInt(frame_count), FInt(nwindows)), 3, -1))

\* a quarter of the CPUs, truncated instead of rounded
QuarterOfCpusFloor(cpu_count) == FFloor(FMulSmall(FInt(cpu_count), 1, -2))

\* line 85: round(self.cpu_count * 0.25)
QuarterOfCpus(cpu_count) == PyRound(FMulSmall(FInt(cpu_count), 1, -2))

\* a pool size that is not capped by the number of windows
ProcessorCountNoCap(cpu_count, force_cpu_count, step_count) ==
    IF force_cpu_count THEN cpu_count ELSE Max(1, QuarterOfCpus(cpu_count))

\* lines 85-88
ProcessorCount(cpu_count, force_cpu_count, step_count) ==
    IF force_cpu_count THEN cpu_count
    ELSE Max(1, Min(QuarterOfCpus(cpu_count), step_count))

\* lines 41-42: the directory is made when it is missing and preview is off
MakesDir(dir_exists, preview) == ~dir_exists /\ ~preview

\* line 38: vidcap.read() decodes the first frame of an opened, non-empty video
FirstRead(opened, frame_count) == IF opened /\ frame_count > 0 THEN 1 ELSE 0

NoPlan ==
    [video_length_ms |-> FZero, window_size_ms |-> FZero, step_count |-> 0,
     windows |-> <<>>, buffer_size |-> 0, processor_count |-> 0]

\* lines 35-91 for the video vid, the options opts of the constructor and
\* the arguments call of extract.  end is "ZeroDivisionError" (with the line that raised it),
\* "exit" (line 66) or "pool" (line 93 is reached).
Planning(vid, opts, call, dir_exists) ==
    LET made == MakesDir(dir_exists, opts.preview)
        nread == FirstRead(vid.opened, vid.frame_count)
        Out(end, line, plan) ==
            [end |-> end, line |-> line, made_dir |-> made,
             frames_read |-> nread, plan |-> plan]
    IN  IF FIsZero(vid.fps) THEN Out("ZeroDivisionError", 47, NoPlan)
        ELSE
        LET length == VideoLengthMs(vid.frame_count, vid.fps)
            size1  == TargetWindowSize(length, call.window_size_ms,
                                      call.target_frame_count)
        IN  IF opts.extract_all /\ vid.frame_count = 0
            THEN Out("ZeroDivisionError", 56,
                     [NoPlan EXCEPT !.video_length_ms = length,
                                    !.window_size_ms = size1])
            ELSE
            LET size2 == AllWindowSize(length, size1, vid.frame_count,
                                   opts.extract_all)
                plan2 == [NoPlan EXCEPT !.video_length_ms = length,
                                        !.window_size_ms = size2]
            IN  IF FIsZero(size2) THEN Out("ZeroDivisionError", 59, plan2)
                ELSE
                LET nsteps == StepCount(length, size2)
                    plan3 == [plan2 EXCEPT !.step_count = nsteps]
                IN  IF opts.preview THEN Out("exit", 66, plan3)
                    ELSE
                    LET wins  == CreateWindows(size2, length, nsteps)
                        plan4 == [plan3 EXCEPT !.windows = wins]
                    IN  IF Len(wins) = 0 THEN Out("ZeroDivisionError", 82, plan4)
                        ELSE Out("pool", 93,
                                 [plan4 EXCEPT
                                    !.buffer_size = BufferSize(vid.frame_count, Len(wins)),
                                    !.processor_count =
                                        ProcessorCount(opts.cpu_count,
                                                       opts.force_cpu_count,
                                                       nsteps)])

(***************************************************************************)
(* The worker function (SFEWorker.extract) and the names it reports.       *)
(***************************************************************************)
Digits == <<"0", "1", "2", "3", "4", "5", "6", "7", "8", "9">>

\* the file name of window i: zero-padded index and extension, as a string
\* (a sequence of characters)
FrameName(i) ==
    <<Digits[((i \div 10) % 10) + 1], Digits[(i % 10) + 1], ".", "p", "n", "g">>

\* what the worker reports for a window: None (the empty tuple here) or
\* (frame_name, sharpness)
WorkerResult(window, found) ==
    IF found THEN <<FrameName(window.index), "sharpness">> ELSE <<>>

\* s[0] of a Python string: the one-character string of its first character
StrIndex0(str) == <<str[1]>>

(***************************************************************************)
(* State.                                                                  *)
(***************************************************************************)
VARIABLES
    video,        \* the source: [opened, fps, frame_count] as cv2 reports them
    self,         \* [cpu_count, force_cpu_count, extract_all, preview]
    args,         \* [window_size_ms, target_frame_count]
    output_dir,   \* "absent", "existing" (before the call) or "created" (by it)
    pc,           \* "start", "raised", "exited", "collect", "done"
    raised_at,    \* the line of extract that raised, 0 when none did
    frames_read,  \* frames decoded through the coordinator's own vidcap
    loc,          \* locals of extract: video_length_ms, window_size_ms, ...
    pool_size,    \* worker processes started by Pool(processes=...), 0: no pool
    taskq,        \* windows not yet taken by a worker, in list order
    busy,         \* busy[p]: <<>> or <<the window worker p is processing>>
    outq,         \* finished outcomes not yet seen by the for loop
    seen,         \* the outcomes the for loop of line 101 has gone through
    results,      \* the list results of line 92
    files,        \* names of the files written by the workers
    frames        \* the returned list (line 112)

vars ==
    <<video, self, args, output_dir, pc, raised_at, frames_read, loc,
      pool_size, taskq, busy, outq, seen, results, files, frames>>

(***************************************************************************)
(* Inputs.                                                                 *)
(***************************************************************************)
Video(opened, fps, frame_count) ==
    [opened |-> opened, fps |-> fps, frame_count |-> frame_count]

\* a source that cannot be opened reports 0 for every property
Unopened == Video(FALSE, FZero, 0)

MaxCpus == 3

MaxTarget == 8

MaxCpuBudget == 16

\* runs explored to the end: a 24 fps video of 0 or 3 frames (125 ms)
RunVideos ==
    {Unopened, Video(TRUE, FZero, 3), Video(TRUE, FInt(24), 0),
     Video(TRUE, FInt(24), 3)}

RunSelves ==
    [cpu_count : 1..MaxCpus, force_cpu_count : BOOLEAN, extract_all : BOOLEAN,
     preview : BOOLEAN]

RunArgs ==
    [window_size_ms : {FInt(50), FInt(125), FInt(300)},
     target_frame_count : {-1, 2}]

\* plans explored: 24 and 30 fps, up to one second of video
PlanVideos ==
    {Video(TRUE, FInt(r), n) : r \in {24, 30}, n \in {0, 3, 15, 24}}

PlanSelves ==
    [cpu_count : {4}, force_cpu_count : {FALSE}, extract_all : BOOLEAN,
     preview : {FALSE}]

PlanArgs ==
    [window_size_ms : {FInt(250), FInt(300), FInt(1000), FInt(2500)},
     target_frame_count : {-1} \cup 1..MaxTarget]

\* pool sizing explored: one second of video in 4, 3 or 1 windows
SizingVideos == {Video(TRUE, FInt(24), 24)}

SizingSelves ==
    [cpu_count : 1..MaxCpuBudget, force_cpu_count : BOOLEAN,
     extract_all : {FALSE}, preview : {FALSE}]

SizingArgs ==
    [window_size_ms : {FInt(250), FInt(300), FInt(1000)},
     target_frame_count : {-1}]

InitOf(Videos, Selves, Args, Dirs) ==
    /\ video \in Videos
    /\ self \in Selves
    /\ args \in Args
    /\ output_dir \in Dirs
    /\ pc = "start"
    /\ raised_at = 0
    /\ frames_read = 0
    /\ loc = NoPlan
    /\ pool_size = 0
    /\ taskq = <<>>
    /\ busy = <<>>
    /\ outq = <<>>
    /\ seen = <<>>
    /\ results = <<>>
    /\ files = {}
    /\ frames = <<>>

Init == InitOf(RunVideos, RunSelves, RunArgs, {"absent", "existing"})

PlanInit ==
    \/ InitOf(PlanVideos, PlanSelves, PlanArgs, {"absent"})
    \/ InitOf(SizingVideos, SizingSelves, SizingArgs, {"absent"})

(***************************************************************************)
(* Actions.                                                                *)
(***************************************************************************)

\* lines 34-100: extract up to and including the creation of the pool and
\* the submission of the windows by imap_unordered
PlanOutcome(o) ==
    /\ output_dir' = IF o.made_dir THEN "created" ELSE output_dir
    /\ frames_read' = o.frames_read
    /\ loc' = o.plan
    /\ pc' = IF o.end = "pool" THEN "collect"
             ELSE IF o.end = "exit" THEN "exited" ELSE "raised"
    /\ raised_at' = IF o.end = "ZeroDivisionError" THEN o.line ELSE 0
    /\ pool_size' = IF o.end = "pool" THEN o.plan.processor_count ELSE 0
    /\ taskq' = IF o.end = "pool" THEN o.plan.windows ELSE <<>>
    /\ busy' = IF o.end = "pool"
               THEN [p \in 1..o.plan.processor_count |-> <<>>] ELSE <<>>

Plan ==
    /\ pc = "start"
    /\ \E o \in {Planning(video, self, args, output_dir = "existing")} :
          PlanOutcome(o)
    /\ UNCHANGED <<video, self, args, outq, seen, results, files, frames>>

\* a queue that keeps the task a worker took
AfterTakeKept(q) == q

\* the queue of tasks after a worker took the first one
AfterTake(q) == Tail(q)

\* a free worker of the pool takes the next window
Take(p) ==
    /\ pc = "collect"
    /\ p \in 1..pool_size
    /\ busy[p] = <<>>
    /\ taskq # <<>>
    /\ busy' = [busy EXCEPT ![p] = <<Head(taskq)>>]
    /\ taskq' = AfterTake(taskq)
    /\ UNCHANGED <<video, self, args, output_dir, pc, raised_at, frames_read,
                   loc, pool_size, outq, seen, results, files, frames>>

\* worker p finishes its window, with or without a frame
Finish(p, found) ==
    /\ pc = "collect"
    /\ p \in 1..pool_size
    /\ busy[p] # <<>>
    /\ outq' = Append(outq, [index |-> busy[p][1].index,
                             res |-> WorkerResult(busy[p][1], found)])
    /\ files' = IF found THEN files \cup {FrameName(busy[p][1].index)} ELSE files
    /\ busy' = [busy EXCEPT ![p] = <<>>]
    /\ UNCHANGED <<video, self, args, output_dir, pc, raised_at, frames_read,
                   loc, pool_size, taskq, seen, results, frames>>

\* lines 101-105: one iteration of the for loop
Collect ==
    /\ pc = "collect"
    /\ outq # <<>>
    /\ seen' = Append(seen, Head(outq))
    /\ results' = IF Head(outq).res = <<>> THEN results
                  ELSE Append(results, Head(outq).res[1])
    /\ outq' = Tail(outq)
    /\ UNCHANGED <<video, self, args, output_dir, pc, raised_at, frames_read,
                   loc, pool_size, taskq, busy, files, frames>>

\* line 109: frames = [result[0] for result in results if result is not None]
Frames(res) == [k \in 1..Len(res) |-> StrIndex0(res[k])]

\* lines 101, 107-112: the iterator is exhausted after len(windows) outcomes
Return ==
    /\ pc = "collect"
    /\ Len(seen) = Len(loc.windows)
    /\ frames' = Frames(results)
    /\ pc' = "done"
    /\ UNCHANGED <<video, self, args, output_dir, raised_at, frames_read, loc,
                   pool_size, taskq, busy, outq, seen, results, files>>

Next ==
    \/ Plan
    \/ \E p \in 1..pool_size : Take(p)
    \/ \E p \in 1..pool_size : \E found \in BOOLEAN : Finish(p, found)
    \/ Collect
    \/ Return

Spec == Init /\ [][Next]_vars

\* the planner alone, over a wider range of videos and policies
PlanSpec == PlanInit /\ [][Plan]_vars

\* the runs whose dispatch is followed to the end: three frames at 24 fps
LiveInit ==
    InitOf({Video(TRUE, FInt(24), 3)},
           [cpu_count : 1..MaxCpus, force_cpu_count : BOOLEAN,
            extract_all : BOOLEAN, preview : {FALSE}],
           [window_size_ms : {FInt(50)}, target_frame_count : {-1}],
           {"absent"})

\* every process keeps running: the coordinator's loop and each worker
LiveSpec ==
    /\ LiveInit
    /\ [][Next]_vars
    /\ \A p \in 1..MaxCpus : WF_vars(Take(p))
    /\ \A p \in 1..MaxCpus : WF_vars(\E found \in BOOLEAN : Finish(p, found))
    /\ WF_vars(Collect)
    /\ WF_vars(Return)

(***************************************************************************)
(* Properties.                                                             *)
(***************************************************************************)
Dispatched == pc \in {"collect", "done"}

NothingDispatched ==
    pool_size = 0 /\ taskq = <<>> /\ outq = <<>> /\ seen = <<>> /\ files = {}

\* C1: once the windows exist (step_count >= 1) their indices are 0, 1, ...
\* in list order, the first starts at 0, each ends where the next starts, and
\* the last ends at video_length_ms.
C1_WindowsCoverDuration ==
    Dispatched =>
        /\ \A k \in 1..Len(loc.windows) : loc.windows[k].index = k - 1
        /\ loc.windows[1].start_ms = FZero
        /\ \A k \in 1..(Len(loc.windows) - 1) :
              loc.windows[k].end_ms = loc.windows[k + 1].start_ms
        /\ loc.windows[Len(loc.windows)].end_ms = loc.video_length_ms

\* the names reported for the outcomes that carry a result, in order
PresentNames(outcomes) ==
    [k \in 1..Len(SelectSeq(outcomes, LAMBDA o : o.res # <<>>)) |->
        SelectSeq(outcomes, LAMBDA o : o.res # <<>>)[k].res[1]]

\* C2: the returned list is the whole frame names of the results that were
\* present, in the order the for loop saw them, and is never longer than the
\* window list.
C2_ReturnsFrameNames ==
    pc = "done" =>
        /\ frames = PresentNames(seen)
        /\ Len(frames) <= Len(loc.windows)

C4_FailFast ==
    pc = "raised" =>
        /\ output_dir # "created"
        /\ pool_size = 0
        /\ files = {}

\* C5: with preview set and a valid video and window size, the run creates
\* no directory, decodes no frame, starts no worker, writes no file and
\* exits with status 0 after planning.
C5_PreviewNoEffects ==
    (/\ pc # "start"
     /\ self.preview
     /\ video.opened /\ ~FIsZero(video.fps) /\ video.frame_count > 0
     /\ ~FIsZero(args.window_size_ms))
    => /\ pc = "exited"
       /\ output_dir # "created"
       /\ frames_read = 0
       /\ NothingDispatched

Clamp(v, lo, hi) == IF v < lo THEN lo ELSE IF v > hi THEN hi ELSE v

\* r is an integer nearest to cpus / 4
NearestToQuarter(r, cpus) == 4 * r - cpus \in -2..2

\* C6: the pool size is clamp(round(cpu_count * 0.25), 1, window count) with
\* round a nearest integer when force_cpu_count is off, and cpu_count itself
\* when it is on; 16 CPUs and 4 windows give 4, forced 16.
C6_PoolSize ==
    Dispatched =>
        /\ self.force_cpu_count => pool_size = self.cpu_count
        /\ ~self.force_cpu_count =>
              \E r \in 0..self.cpu_count :
                  /\ NearestToQuarter(r, self.cpu_count)
                  /\ pool_size = Clamp(r, 1, Len(loc.windows))
        /\ (self.cpu_count = 16 /\ Len(loc.windows) = 4)
           => pool_size = IF self.force_cpu_count THEN 16 ELSE 4

\* 16 CPUs, 4 windows, not forced: a pool of 4
C6_Witness ==
    /\ pc = "collect"
    /\ self.cpu_count = 16
    /\ ~self.force_cpu_count
    /\ Len(loc.windows) = 4
    /\ pool_size = 4

\* C7 as claimed: whatever the configuration, 1 <= pool size <= window count.
C7_Original ==
    Dispatched => (1 <= pool_size /\ pool_size <= Len(loc.windows))

\* C7 (amended): with force_cpu_count off, 1 <= pool size <= window count;
\* with force_cpu_count on the pool has cpu_count workers.
C7_Amended ==
    Dispatched =>
        /\ ~self.force_cpu_count
           => (1 <= pool_size /\ pool_size <= Len(loc.windows))
        /\ self.force_cpu_count => pool_size = self.cpu_count

\* a quarter of the CPUs is more than the windows: the cap applies
C7_Witness ==
    /\ pc = "collect"
    /\ ~self.force_cpu_count
    /\ self.cpu_count = 16
    /\ Len(loc.windows) = 3
    /\ pool_size = 3

Interval(i, from, to) ==
    [index |-> i, start_ms |-> FInt(from), end_ms |-> FInt(to)]

\* one second of video cut by the fixed window size of 300 ms
OneSecondBy300 ==
    /\ Dispatched
    /\ loc.video_length_ms = FInt(1000)
    /\ args.window_size_ms = FInt(300)
    /\ args.target_frame_count <= 0
    /\ ~self.extract_all

\* C8 as claimed: 1000 ms in windows of 300 ms gives [0,300), [300,600),
\* [600,900), [900,1000).
C8_Original ==
    OneSecondBy300 =>
        loc.windows = <<Interval(0, 0, 300), Interval(1, 300, 600),
                        Interval(2, 600, 900), Interval(3, 900, 1000)>>

\* C8 (amended): 1000 ms in windows of 300 ms gives the three windows
\* [0,300), [300,600), [600,1000).
C8_Amended ==
    OneSecondBy300 =>
        loc.windows = <<Interval(0, 0, 300), Interval(1, 300, 600),
                        Interval(2, 600, 1000)>>

C8_Witness == OneSecondBy300 /\ Len(loc.windows) = 3

\* C9: the policy fixes the number of windows: frame_count with extract_all,
\* else target_frame_count when it is positive, else
\* floor(video_length_ms / window_size_ms).
C9_PolicyWindowCount ==
    Dispatched =>
        Len(loc.windows) =
            IF self.extract_all THEN video.frame_count
            ELSE IF args.target_frame_count > 0 THEN args.target_frame_count
            ELSE FFloor(FDiv(loc.video_length_ms, args.window_size_ms))

\* how many entries of the sequence sq are about window i
CountIn(sq, i) == Cardinality({k \in 1..Len(sq) : sq[k].index = i})

\* window i is in exactly one place: waiting, with one worker, finished or
\* collected
InOnePlace(i) ==
    CountIn(taskq, i)
    + Cardinality({p \in 1..pool_size : busy[p] # <<>> /\ busy[p][1].index = i})
    + CountIn(outq, i)
    + CountIn(seen, i) = 1

EachWindowOnce ==
    Dispatched => \A k \in 1..Len(loc.windows) : InOnePlace(loc.windows[k].index)

AllCollected ==
    pc = "done" =>
        /\ Len(seen) = Len(loc.windows)
        /\ taskq = <<>>
        /\ outq = <<>>
        /\ \A p \in 1..pool_size : busy[p] = <<>>

\* C10: every window is taken by one worker once and collected once, the run
\* ends only after all the outcomes are collected, and, the workers
\* finishing what they take, it does end, idle workers included.
C10_EveryWindowOnceThenDone ==
    /\ [](EachWindowOnce /\ AllCollected)
    /\ (pc = "collect") ~> (pc = "done")

\* a finished run of a forced pool larger than its two or more windows
C10_Witness ==
    /\ pc = "done"
    /\ Len(loc.windows) >= 2
    /\ pool_size > Len(loc.windows)
    /\ Len(seen) = Len(loc.windows)

====
